---- MODULE Spec2Model ----
(***************************************************************************)
(* Model of the items API of neon-database-crud-app: the dispatcher        *)
(* handleApi (src/src/routes.ts) over the query/transaction helpers of     *)
(* db.ts (src/unnamed/part_002) and the table playing_with_neon.           *)
(*                                                                         *)
(* A request is handled by one handler invocation.  Every await on the     *)
(* storage layer is a step boundary: between two steps of one handler the  *)
(* steps of the other handlers may run.                                    *)
(***************************************************************************)
EXTENDS Integers, Sequences, FiniteSets, TLC

\* ------------------------------------------------------------------ bounds

\* Requests received in one behaviour.
MaxRequests == 3

\* Rows already stored when the server starts.
MaxInitRows == 2

\* Concurrent handler invocations.
Procs == {1, 2}

\* ------------------------------------------------------------ JSON values

\* A JSON value as JavaScript sees it: t is its kind, n its number, s its
\* string (a sequence of characters).
JV(t, n, s) == [t |-> t, n |-> n, s |-> s]

Undefined == JV("undefined", 0, <<>>)

JNum(n) == JV("number", n, <<>>)

JStr(s) == JV("string", 0, s)

\* A request body.  t = "invalid" is a body that is absent or is not JSON;
\* "null", "boolean" (n = 1 for true), "number", "string" are JSON
\* primitives; "object" carries the two properties the handler reads
\* (Undefined when the property is missing).
Body(t, n, s, name, value) == [t |-> t, n |-> n, s |-> s, name |-> name, value |-> value]

Prim(t, n, s) == Body(t, n, s, Undefined, Undefined)

Obj(name, value) == Body("object", 0, <<>>, name, value)

NoBody == Prim("invalid", 0, <<>>)

\* The names and values of well-formed payloads.
NameA == <<"a">>

NameB == <<" ", "b">>

ValidBodies == {Obj(JStr(NameA), JNum(1)), Obj(JStr(NameB), JNum(2))}

\* Payloads that some rule of validateItem rejects, and the JSON primitives.
InvalidBodies ==
    { NoBody,
      Prim("null", 0, <<>>),
      Prim("boolean", 0, <<>>),
      Prim("boolean", 1, <<>>),
      Prim("number", 0, <<>>),
      Prim("number", 7, <<>>),
      Prim("string", 0, <<>>),
      Prim("string", 0, <<"x">>),
      Obj(Undefined, Undefined),
      Obj(Undefined, JNum(1)),
      Obj(JNum(5), JNum(1)),
      Obj(JStr(<<>>), JNum(1)),
      Obj(JStr(<<" ", " ">>), JNum(1)),
      Obj(JStr(<<" ">>), JStr(<<"y">>)),
      Obj(JStr(NameA), Undefined),
      Obj(JStr(NameA), JStr(<<"y">>)) }

\* ------------------------------------------------------------- path names

\* A path name is a sequence of characters; "api", "items" and "other" stand
\* for those runs of letters.
Digits == {"0", "1", "2", "3", "4", "5", "6", "7", "8", "9"}

DigitVal(c) ==
    CASE c = "0" -> 0 [] c = "1" -> 1 [] c = "2" -> 2 [] c = "3" -> 3
      [] c = "4" -> 4 [] c = "5" -> 5 [] c = "6" -> 6 [] c = "7" -> 7
      [] c = "8" -> 8 [] c = "9" -> 9

\* pathname.split("/")
split(s) ==
    LET F[i \in 0..Len(s)] ==
            IF i = 0 THEN << <<>> >>
            ELSE IF s[i] = "/" THEN Append(F[i - 1], <<>>)
            ELSE [F[i - 1] EXCEPT ![Len(F[i - 1])] = Append(@, s[i])]
    IN  F[Len(s)]

IsNonEmpty(x) == x # <<>>

\* .filter(Boolean): the empty string is falsy
filterBoolean(segs) == SelectSeq(segs, IsNonEmpty)

Segments(pathname) == filterBoolean(split(pathname))

\* The decimal value of a run of digits.
DecimalValue(ds) ==
    LET F[i \in 0..Len(ds)] ==
            IF i = 0 THEN 0 ELSE 10 * F[i - 1] + DigitVal(ds[i])
    IN  F[Len(ds)]

\* Number(str) for a non-empty string: an optional sign, digits, and at most
\* one decimal point with digits on one side at least; anything else is NaN.
\* int is Number.isInteger of the result and val its value when int.
Number(str) ==
    LET signed == str # <<>> /\ str[1] \in {"-", "+"}
        rest   == IF signed THEN Tail(str) ELSE str
        dots   == {i \in 1..Len(rest) : rest[i] = "."}
        dot    == IF dots = {} THEN Len(rest) + 1 ELSE CHOOSE i \in dots : TRUE
        whole  == SubSeq(rest, 1, dot - 1)
        frac   == SubSeq(rest, dot + 1, Len(rest))
        wellFormed ==
            /\ \A i \in 1..Len(rest) : rest[i] \in Digits \cup {"."}
            /\ Cardinality(dots) <= 1
            /\ Len(whole) + Len(frac) > 0
        integral == wellFormed /\ \A i \in 1..Len(frac) : frac[i] = "0"
        sign == IF signed /\ str[1] = "-" THEN -1 ELSE 1
    IN  [nan |-> ~wellFormed,
         int |-> integral,
         val |-> IF integral THEN sign * DecimalValue(whole) ELSE 0]

\* number | null
NullId == [null |-> TRUE, val |-> 0]

SomeId(n) == [null |-> FALSE, val |-> n]

parseId(segments) ==
    IF Len(segments) < 3 THEN NullId
    ELSE LET id == Number(segments[3])
         IN  IF id.int THEN SomeId(id.val) ELSE NullId

\* ------------------------------------------------------------- validation

IsSpace(c) == c = " "

\* String.prototype.trim
RECURSIVE trimStart(_)
trimStart(s) == IF s # <<>> /\ IsSpace(Head(s)) THEN trimStart(Tail(s)) ELSE s

RECURSIVE trimEnd(_)
trimEnd(s) ==
    IF s # <<>> /\ IsSpace(s[Len(s)]) THEN trimEnd(SubSeq(s, 1, Len(s) - 1)) ELSE s

trim(s) == trimEnd(trimStart(s))

\* !body: null, 0, "" and false are falsy; a body that did not parse is null.
Falsy(body) ==
    \/ body.t \in {"invalid", "null"}
    \/ body.t = "boolean" /\ body.n = 0
    \/ body.t = "number" /\ body.n = 0
    \/ body.t = "string" /\ body.s = <<>>

\* body.name, body.value: a property of a primitive is undefined
PropName(body) == IF body.t = "object" THEN body.name ELSE Undefined

PropValue(body) == IF body.t = "object" THEN body.value ELSE Undefined

NoReason == "null"

\* validateItem with the value rule tried before the name rule.
validateItemValueFirst(body) ==
    IF Falsy(body) THEN "Body required"
    ELSE IF PropValue(body).t # "number" THEN "value must be number"
    ELSE IF PropName(body).t # "string" \/ trim(PropName(body).s) = <<>>
         THEN "name must be string"
    ELSE NoReason

validateItem(body) ==
    IF Falsy(body) THEN "Body required"
    ELSE IF PropName(body).t # "string" \/ trim(PropName(body).s) = <<>>
         THEN "name must be string"
    ELSE IF PropValue(body).t # "number" THEN "value must be number"
    ELSE NoReason

\* ------------------------------------------------------------------ rows

\* type Item
Item(id, name, value) == [id |-> id, name |-> name, value |-> value]

NoItem == Item(0, <<>>, 0)

\* What an operation passed to query resolves to: the rows of a SELECT, the
\* first row of a RETURNING (undefined when there is none), or nothing.
Data(kind, rows, row) == [kind |-> kind, rows |-> rows, row |-> row]

DataRows(rows) == Data("rows", rows, NoItem)

DataRow(row) == Data("row", <<>>, row)

DataUndefined == Data("undefined", <<>>, NoItem)

DataNull == Data("null", <<>>, NoItem)

\* A value thrown by the storage layer: an Error with a message, or some
\* other value whose String() is text.
Thrown(isError, text) == [isError |-> isError, text |-> text]

Errs == {Thrown(TRUE, "connection terminated"), Thrown(FALSE, "timeout")}

NoError == [null |-> TRUE, message |-> ""]

Error(message) == [null |-> FALSE, message |-> message]

\* The settled promise of an operation.
Resolved(data) == [ok |-> TRUE, data |-> data, thrown |-> Thrown(TRUE, "")]

Rejected(e) == [ok |-> FALSE, data |-> DataNull, thrown |-> e]

\* query without its catch block: a failure leaves it as a rejection.
queryRethrows(settled) ==
    IF settled.ok
    THEN [data |-> settled.data, error |-> NoError, escaped |-> FALSE]
    ELSE [data |-> DataNull, error |-> NoError, escaped |-> TRUE]

\* query with a catch block that drops the error: { data: null, error: null }.
querySwallows(settled) ==
    IF settled.ok
    THEN [data |-> settled.data, error |-> NoError, escaped |-> FALSE]
    ELSE [data |-> DataNull, error |-> NoError, escaped |-> FALSE]

\* query(queryFn, context): never rejects; escaped is whether the failure
\* left query as a rejection instead.
query(settled) ==
    IF settled.ok
    THEN [data |-> settled.data, error |-> NoError, escaped |-> FALSE]
    ELSE LET err == IF settled.thrown.isError
                    THEN Error(settled.thrown.text)
                    ELSE Error(settled.thrown.text)
         IN  [data |-> DataNull, error |-> err, escaped |-> FALSE]

\* -------------------------------------------------------------- responses

\* A Response: its status and its body, the JSON text of a value of one of
\* these kinds.
Response(status, kind, data, error) ==
    [status |-> status, kind |-> kind, data |-> data, error |-> error]

\* No response yet.
NoResponse == Response(-1, "none", DataNull, "")

\* No response ever: the promise of handleApi rejected.
Escaped == Response(0, "none", DataNull, "")

\* json(data, status): JSON.stringify(undefined) is undefined, an empty body
json(data, status) ==
    IF data.kind = "undefined" THEN Response(status, "empty", DataNull, "")
    ELSE Response(status, "json", data, "")

\* json({ error: message }, status)
jsonError(message, status) == Response(status, "error", DataNull, message)

badRequest(message) == jsonError(message, 400)

notFound == jsonError("Not found", 404)

\* new Response(null, { status: 204 })
noContent == Response(204, "empty", DataNull, "")

\* --------------------------------------------------------------- dispatch

Request(method, pathname, body) ==
    [method |-> method, pathname |-> pathname, body |-> body]

\* The branch of handleApi a request takes, and the response of the
\* branches that end before any storage statement.
Route(r) ==
    LET segments == Segments(r.pathname)
        id == parseId(segments)
        validation == validateItem(r.body)
    IN  IF r.method = "GET" /\ Len(segments) = 2
        THEN [op |-> "list", id |-> id, resp |-> NoResponse]
        ELSE IF r.method = "POST" /\ Len(segments) = 2
        THEN IF validation # NoReason
             THEN [op |-> "none", id |-> id, resp |-> badRequest(validation)]
             ELSE [op |-> "create", id |-> id, resp |-> NoResponse]
        ELSE IF r.method = "PUT" /\ ~id.null
        THEN IF validation # NoReason
             THEN [op |-> "none", id |-> id, resp |-> badRequest(validation)]
             ELSE [op |-> "update", id |-> id, resp |-> NoResponse]
        ELSE IF r.method = "DELETE" /\ ~id.null
        THEN [op |-> "delete", id |-> id, resp |-> NoResponse]
        ELSE [op |-> "none", id |-> id, resp |-> notFound]

\* if (error) return json({ error: error.message }, 500)
errorResponse(q) == jsonError(q.error.message, 500)

\* The response of GET /api/items from the result of query.
listResponse(q) ==
    IF q.escaped THEN Escaped
    ELSE IF ~q.error.null THEN errorResponse(q)
    ELSE json(q.data, 200)

\* createResponse answering a created item with the default status.
createResponseStatus200(q) ==
    IF q.escaped THEN Escaped
    ELSE IF ~q.error.null THEN errorResponse(q)
    ELSE json(q.data, 200)

\* The response of POST /api/items.
createResponse(q) ==
    IF q.escaped THEN Escaped
    ELSE IF ~q.error.null THEN errorResponse(q)
    ELSE json(q.data, 201)

\* updateResponse without the !data test.
updateResponseNoMissingCheck(q) ==
    IF q.escaped THEN Escaped
    ELSE IF ~q.error.null THEN errorResponse(q)
    ELSE json(q.data, 200)

\* The response of PUT /api/items/:id: !data is true of undefined and null.
updateResponse(q) ==
    IF q.escaped THEN Escaped
    ELSE IF ~q.error.null THEN errorResponse(q)
    ELSE IF q.data.kind \in {"undefined", "null"} THEN notFound
    ELSE json(q.data, 200)

\* The response of DELETE /api/items/:id.
deleteResponse(q) ==
    IF q.escaped THEN Escaped
    ELSE IF ~q.error.null THEN errorResponse(q)
    ELSE noContent

responseOf(op, q) ==
    CASE op = "list" -> listResponse(q)
      [] op = "create" -> createResponse(q)
      [] op = "update" -> updateResponse(q)
      [] op = "delete" -> deleteResponse(q)

\* ------------------------------------------------------------------ state

VARIABLES
    table,      \* playing_with_neon: the committed rows, in heap order
    nextId,     \* the next value of the id column's sequence
    pc,         \* pc[p]: where handler p is
    req,        \* req[p]: the request handler p serves
    op,         \* op[p]: the branch of handleApi p is in
    id,         \* id[p]: the handler's const id
    pending,    \* pending[p]: the uncommitted write of p's transaction
    err,        \* err[p]: the value thrown inside p's transaction
    result,     \* result[p]: what query returned to p, { data, error }
    resp,       \* resp[p]: the response of p's latest request
    nreq,       \* requests received so far
    created,    \* history: the ids of all rows ever committed by an INSERT
    overlapped  \* history: the handlers' latest requests ran at the same time

vars == <<table, nextId, pc, req, op, id, pending, err, result, resp, nreq, created, overlapped>>

\* ------------------------------------------------------------ the table

Ids(t) == {t[i].id : i \in 1..Len(t)}

RowOf(t, rid) == t[CHOOSE i \in 1..Len(t) : t[i].id = rid]

Without(t, rid) ==
    LET Keep(row) == row.id # rid
    IN  SelectSeq(t, Keep)

\* SELECT * FROM playing_with_neon, without ORDER BY: the heap order.
HeapOrder(t) == t

\* SELECT * FROM playing_with_neon ORDER BY id
RECURSIVE OrderById(_)
OrderById(t) ==
    IF t = <<>> THEN <<>>
    ELSE LET least == CHOOSE i \in Ids(t) : \A j \in Ids(t) : i <= j
         IN  <<RowOf(t, least)>> \o OrderById(Without(t, least))

\* An id computed from the rows present: one more than the greatest.
maxIdPlusOne ==
    IF table = <<>> THEN 1
    ELSE (CHOOSE i \in Ids(table) : \A j \in Ids(table) : i >= j) + 1

\* The id column's default: the next value of its sequence, which no
\* rollback and no DELETE takes back.
nextval == nextId

\* SET name=${body.name} alone.
SetNameOnly(row, body) == Item(row.id, body.name.s, row.value)

\* SET name=${body.name}, value=${body.value}
SetNameValue(row, body) == Item(row.id, body.name.s, body.value.n)

\* A transaction's write: kind is the statement, hit whether a row matched
\* (and is locked until the transaction ends), row the row it leaves.
Write(kind, hit, row) == [kind |-> kind, hit |-> hit, row |-> row]

NoWrite == Write("none", FALSE, NoItem)

\* The row lock a transaction other than p holds on the row rid.
LockedByOther(p, rid) ==
    \E q \in Procs \ {p} :
        pending[q].hit /\ pending[q].kind \in {"update", "delete"} /\ pending[q].row.id = rid

\* COMMIT of a DELETE that has no WHERE clause.
CommittedDeleteAll(t, w) ==
    CASE w.kind = "insert" -> Append(t, w.row)
      [] w.kind = "update" /\ w.hit -> Append(Without(t, w.row.id), w.row)
      [] w.kind = "delete" -> <<>>
      [] OTHER -> t

\* COMMIT: the write becomes part of the table.  An updated row is a new
\* row version, placed after the rows already in the heap.
Committed(t, w) ==
    CASE w.kind = "insert" -> Append(t, w.row)
      [] w.kind = "update" /\ w.hit -> Append(Without(t, w.row.id), w.row)
      [] w.kind = "delete" /\ w.hit -> Without(t, w.row.id)
      [] OTHER -> t

\* No rollback: the statement stays, as if it had run outside a transaction.
NotRolledBack(t, w) ==
    CASE w.kind = "insert" -> Append(t, w.row)
      [] w.kind = "update" /\ w.hit -> Append(Without(t, w.row.id), w.row)
      [] w.kind = "delete" /\ w.hit -> Without(t, w.row.id)
      [] OTHER -> t

\* ROLLBACK: the write is discarded.
RolledBack(t, w) == t

\* What the transaction callback returns: the first row of RETURNING *, or
\* nothing for the DELETE.
CallbackResult(w) ==
    IF w.kind \in {"insert", "update"} /\ w.hit THEN DataRow(w.row) ELSE DataUndefined

\* --------------------------------------------------------------- requests

Methods == {"GET", "POST", "PUT", "DELETE", "PATCH"}

PathItems == <<"/", "api", "/", "items">>

PathOther == <<"/", "api", "/", "other">>

PathItem(seg) == PathItems \o <<"/">> \o seg

Paths ==
    { <<"/", "api">>,
      PathItems,
      PathItems \o <<"/">>,
      PathOther,
      PathItem(<<"1">>),
      PathItem(<<"2">>),
      PathItem(<<"other">>),
      PathItem(<<"1", ".", "5">>),
      PathItem(<<"1", "x">>),
      PathOther \o <<"/", "1">> }

\* Every request of the bounded input space.
AllRequests ==
    {Request(m, path, b) : m \in Methods, path \in Paths, b \in ValidBodies \cup InvalidBodies}

\* The requests of the four operations, on item 1.
CrudRequests ==
    {Request("GET", PathItems, NoBody)}
    \cup {Request("POST", PathItems, Obj(JStr(NameB), JNum(2)))}
    \cup {Request("PUT", PathItem(<<"1">>), b) : b \in ValidBodies}
    \cup {Request("DELETE", PathItem(<<"1">>), NoBody)}

\* ------------------------------------------------------------------- init

NoRequest == Request("", <<>>, NoBody)

NoThrown == Thrown(TRUE, "")

\* query has not returned.
NoResult == [data |-> DataNull, error |-> NoError, escaped |-> TRUE]

Init ==
    /\ \E k \in 0..MaxInitRows :
        /\ table = [i \in 1..k |-> Item(i, NameA, 1)]
        /\ nextId = k + 1
        /\ created = 1..k
    /\ pc = [p \in Procs |-> "idle"]
    /\ req = [p \in Procs |-> NoRequest]
    /\ op = [p \in Procs |-> "none"]
    /\ id = [p \in Procs |-> NullId]
    /\ pending = [p \in Procs |-> NoWrite]
    /\ err = [p \in Procs |-> NoThrown]
    /\ result = [p \in Procs |-> NoResult]
    /\ resp = [p \in Procs |-> NoResponse]
    /\ nreq = 0
    /\ overlapped = FALSE

\* ---------------------------------------------------------------- actions

InFlight(p) == pc[p] \notin {"idle", "done"}

Op(p) == op[p]

Id(p) == id[p].val

\* handleApi is called with request r: the dispatch up to the first await
\* on the storage layer, or to the response when there is none.
Receive(p, r) ==
    /\ ~InFlight(p)
    /\ nreq < MaxRequests
    /\ nreq' = nreq + 1
    /\ req' = [req EXCEPT ![p] = r]
    /\ LET route == Route(r)
       IN  /\ op' = [op EXCEPT ![p] = route.op]
           /\ id' = [id EXCEPT ![p] = route.id]
           /\ resp' = [resp EXCEPT ![p] = route.resp]
           /\ result' = [result EXCEPT ![p] = NoResult]
           /\ pc' = [pc EXCEPT ![p] =
                       CASE route.op = "none" -> "done"
                         [] route.op = "list" -> "list"
                         [] OTHER -> "begin"]
    /\ overlapped' = \E q \in Procs \ {p} : InFlight(q)
    /\ UNCHANGED <<table, nextId, pending, err, created>>

\* GET /api/items: the SELECT resolves.
ListOk(p) ==
    /\ pc[p] = "list"
    /\ result' = [result EXCEPT ![p] = query(Resolved(DataRows(OrderById(table))))]
    /\ resp' = [resp EXCEPT ![p] = listResponse(result'[p])]
    /\ pc' = [pc EXCEPT ![p] = "done"]
    /\ UNCHANGED <<table, nextId, req, op, id, pending, err, nreq, created, overlapped>>

\* GET /api/items: the SELECT rejects.
ListFail(p) ==
    /\ pc[p] = "list"
    /\ \E e \in Errs : result' = [result EXCEPT ![p] = query(Rejected(e))]
    /\ resp' = [resp EXCEPT ![p] = listResponse(result'[p])]
    /\ pc' = [pc EXCEPT ![p] = "done"]
    /\ UNCHANGED <<table, nextId, req, op, id, pending, err, nreq, created, overlapped>>

\* transaction: sql.begin opens the transaction and calls the callback.
Begin(p) ==
    /\ pc[p] = "begin"
    /\ pc' = [pc EXCEPT ![p] = "stmt"]
    /\ UNCHANGED <<table, nextId, req, op, id, pending, err, result, resp, nreq, created, overlapped>>

\* transaction: sql.begin rejects before the callback runs (no connection).
BeginFail(p) ==
    /\ pc[p] = "begin"
    /\ \E e \in Errs : result' = [result EXCEPT ![p] = query(Rejected(e))]
    /\ resp' = [resp EXCEPT ![p] = responseOf(Op(p), result'[p])]
    /\ pc' = [pc EXCEPT ![p] = "done"]
    /\ UNCHANGED <<table, nextId, req, op, id, pending, err, nreq, created, overlapped>>

\* INSERT INTO playing_with_neon (name, value) VALUES (...) RETURNING *
Insert(p) ==
    /\ pc[p] = "stmt"
    /\ Op(p) = "create"
    /\ pending' = [pending EXCEPT ![p] =
                      Write("insert", TRUE, Item(nextval, req[p].body.name.s, req[p].body.value.n))]
    /\ nextId' = nextId + 1
    /\ pc' = [pc EXCEPT ![p] = "executed"]
    /\ UNCHANGED <<table, req, op, id, err, result, resp, nreq, created, overlapped>>

\* UPDATE playing_with_neon SET ... WHERE id=${id} RETURNING *: waits for
\* the row's lock, then matches the committed row if there is one.
Update(p) ==
    /\ pc[p] = "stmt"
    /\ Op(p) = "update"
    /\ ~LockedByOther(p, Id(p))
    /\ pending' = [pending EXCEPT ![p] =
                      IF Id(p) \in Ids(table)
                      THEN Write("update", TRUE, SetNameValue(RowOf(table, Id(p)), req[p].body))
                      ELSE Write("update", FALSE, NoItem)]
    /\ pc' = [pc EXCEPT ![p] = "executed"]
    /\ UNCHANGED <<table, nextId, req, op, id, err, result, resp, nreq, created, overlapped>>

\* DELETE FROM playing_with_neon WHERE id=${id}
Delete(p) ==
    /\ pc[p] = "stmt"
    /\ Op(p) = "delete"
    /\ ~LockedByOther(p, Id(p))
    /\ pending' = [pending EXCEPT ![p] =
                      IF Id(p) \in Ids(table)
                      THEN Write("delete", TRUE, RowOf(table, Id(p)))
                      ELSE Write("delete", FALSE, NoItem)]
    /\ pc' = [pc EXCEPT ![p] = "executed"]
    /\ UNCHANGED <<table, nextId, req, op, id, err, result, resp, nreq, created, overlapped>>

\* The statement rejects and the callback throws: nothing was written.
StmtFail(p) ==
    /\ pc[p] = "stmt"
    /\ \E e \in Errs : err' = [err EXCEPT ![p] = e]
    /\ pc' = [pc EXCEPT ![p] = "rollback"]
    /\ UNCHANGED <<table, nextId, req, op, id, pending, result, resp, nreq, created, overlapped>>

\* The statement ran in the transaction but the callback still throws (its
\* result never arrives).
CallbackFail(p) ==
    /\ pc[p] = "executed"
    /\ \E e \in Errs : err' = [err EXCEPT ![p] = e]
    /\ pc' = [pc EXCEPT ![p] = "rollback"]
    /\ UNCHANGED <<table, nextId, req, op, id, pending, result, resp, nreq, created, overlapped>>

\* The callback returned: sql.begin commits and resolves with its result,
\* and the handler answers.
Commit(p) ==
    /\ pc[p] = "executed"
    /\ table' = Committed(table, pending[p])
    /\ created' = IF pending[p].kind = "insert" THEN created \cup {pending[p].row.id} ELSE created
    /\ result' = [result EXCEPT ![p] = query(Resolved(CallbackResult(pending[p])))]
    /\ resp' = [resp EXCEPT ![p] = responseOf(Op(p), result'[p])]
    /\ pending' = [pending EXCEPT ![p] = NoWrite]
    /\ pc' = [pc EXCEPT ![p] = "done"]
    /\ UNCHANGED <<nextId, req, op, id, err, nreq, overlapped>>

\* The callback threw: sql.begin rolls back and rejects with what was
\* thrown, and the handler answers.
Rollback(p) ==
    /\ pc[p] = "rollback"
    /\ table' = RolledBack(table, pending[p])
    /\ result' = [result EXCEPT ![p] = query(Rejected(err[p]))]
    /\ resp' = [resp EXCEPT ![p] = responseOf(Op(p), result'[p])]
    /\ pending' = [pending EXCEPT ![p] = NoWrite]
    /\ err' = [err EXCEPT ![p] = NoThrown]
    /\ pc' = [pc EXCEPT ![p] = "done"]
    /\ UNCHANGED <<nextId, req, op, id, nreq, created, overlapped>>

\* A step of handler p after the request was received.
Step(p) ==
    \/ ListOk(p)
    \/ ListFail(p)
    \/ Begin(p)
    \/ BeginFail(p)
    \/ Insert(p)
    \/ Update(p)
    \/ Delete(p)
    \/ StmtFail(p)
    \/ CallbackFail(p)
    \/ Commit(p)
    \/ Rollback(p)

ReceiveCrud(p) == \E r \in CrudRequests : Receive(p, r)

\* The first request of a behaviour, any request of the input space.
ReceiveFirst(p) == nreq = 0 /\ \E r \in AllRequests : Receive(p, r)

\* Concurrent handlers serving the four operations.
Next == \E p \in Procs : ReceiveCrud(p) \/ Step(p)

Spec == Init /\ [][Next]_vars

\* One request, over the whole input space.
RouteNext == ReceiveFirst(1) \/ Step(1)

RouteSpec == Init /\ [][RouteNext]_vars

\* =================================================================== claims

Done(p) == pc[p] = "done"

\* The table as Init leaves it, for the number of rows it has.
InitialTable(t) == t = [i \in 1..Len(t) |-> Item(i, NameA, 1)]

\* ------------------------------------------------------------------- C1

Statuses == {200, 201, 204, 400, 404, 500}

\* C1: whatever the request and whatever the storage layer does, a handler
\* that has ended has returned a response with one of the six statuses (no
\* failure left handleApi as a rejection), and a handler that has not ended
\* can always take a step.
C1_AlwaysAResponse ==
    /\ Done(1) => resp[1].status \in Statuses
    /\ InFlight(1) => resp[1] = NoResponse /\ ENABLED Step(1)

\* A PUT whose transaction failed has been answered with 500.
C1_Witness ==
    Done(1) /\ op[1] = "update" /\ resp[1].status = 500

\* ------------------------------------------------------------------- C2

IsInteger(seg) == Number(seg).int

\* The four routes of the API, as the path's segments.
IsItemsRoute(r) ==
    LET segments == Segments(r.pathname)
        items == Len(segments) >= 2 /\ segments[1] = <<"api">> /\ segments[2] = <<"items">>
    IN  \/ r.method \in {"GET", "POST"} /\ items /\ Len(segments) = 2
        \/ r.method \in {"PUT", "DELETE"} /\ items /\ Len(segments) = 3
              /\ IsInteger(segments[3])

\* C2: a request that is none of the four routes is answered with 404
\* without any storage statement: its handler is never waiting on the
\* storage layer.
C2_UnroutedIs404 ==
    \A p \in Procs :
        req[p] # NoRequest /\ ~IsItemsRoute(req[p]) => Done(p) /\ resp[p] = notFound

\* ------------------------------------------------------------------- C3

\* C3: two handlers that served the same request and both met a storage
\* failure returned the same response, whatever the failures' messages.
C3_ErrorBodyIndependentOfMessage ==
    \A p, q \in Procs :
        /\ Done(p) /\ Done(q) /\ req[p] = req[q]
        /\ resp[p].status = 500 /\ resp[q].status = 500
        => resp[p] = resp[q]

\* ------------------------------------------------------------------- C4

HasNonSpace(s) == \E i \in 1..Len(s) : s[i] # " "

NameOk(body) ==
    body.t = "object" /\ body.name.t = "string" /\ HasNonSpace(body.name.s)

ValueOk(body) == body.t = "object" /\ body.value.t = "number"

\* The claim's rules as written: only an absent or unparseable body (and
\* the null payload) is "Body required".
ReasonAsClaimed(body) ==
    IF body.t \in {"invalid", "null"} THEN "Body required"
    ELSE IF ~NameOk(body) THEN "name must be string"
    ELSE IF ~ValueOk(body) THEN "value must be number"
    ELSE NoReason

\* The rules with every falsy JSON value (null, false, 0, "") counted as an
\* absent body.
ReasonAmended(body) ==
    IF \/ body.t \in {"invalid", "null"}
       \/ body.t \in {"boolean", "number"} /\ body.n = 0
       \/ body.t = "string" /\ Len(body.s) = 0
    THEN "Body required"
    ELSE IF ~NameOk(body) THEN "name must be string"
    ELSE IF ~ValueOk(body) THEN "value must be number"
    ELSE NoReason

IsWriteRoute(r) == r.method \in {"POST", "PUT"} /\ IsItemsRoute(r)

\* The request was refused with 400 and the given reason before any storage
\* statement, and the stored items are those of the start.
Refused(p, reason) ==
    /\ Done(p)
    /\ resp[p] = Response(400, "error", DataNull, reason)
    /\ InitialTable(table)
    /\ nextId = Len(table) + 1

\* C4 as claimed: a POST or PUT whose body fails validation is answered 400
\* with the reason of the first failing rule, and nothing is stored.
C4_FirstFailingRuleAsClaimed ==
    \A p \in Procs :
        IsWriteRoute(req[p]) /\ ReasonAsClaimed(req[p].body) # NoReason
        => Refused(p, ReasonAsClaimed(req[p].body))

\* C4 amended: the same, with "Body required" also the reason for the falsy
\* JSON values false, 0 and "".
C4_FirstFailingRule ==
    \A p \in Procs :
        IsWriteRoute(req[p]) /\ ReasonAmended(req[p].body) # NoReason
        => Refused(p, ReasonAmended(req[p].body))

\* A PUT whose name and value are both invalid was refused for its name.
C4_Witness ==
    /\ req[1].method = "PUT"
    /\ IsItemsRoute(req[1])
    /\ ~NameOk(req[1].body) /\ ~ValueOk(req[1].body) /\ req[1].body.t = "object"
    /\ req[1].body.name.t = "string"
    /\ Refused(1, "name must be string")

\* ---------------------------------------------------- steps of a handler

Rows(t) == {t[i] : i \in 1..Len(t)}

\* Handler p's statement runs inside its transaction.
Executes(p) == pc[p] = "stmt" /\ pc'[p] = "executed"

\* Handler p's transaction commits and p answers.
Commits(p) == pc[p] = "executed" /\ pc'[p] = "done"

\* Handler p's transaction rolls back and p answers.
RollsBack(p) == pc[p] = "rollback" /\ pc'[p] = "done"

\* Handler p's SELECT resolves and p answers.
Lists(p) == pc[p] = "list" /\ pc'[p] = "done" /\ resp'[p].status = 200

\* The item a valid body asks for, under the id rid.
ItemOf(rid, body) == Item(rid, body.name.s, body.value.n)

Ok(status, row) == Response(status, "json", DataRow(row), "")

\* ------------------------------------------------------------------- C5

\* C5: the UPDATE matches a row exactly when one with the id is stored as
\* it executes.  With no match the PUT is answered 404 and the table is
\* unchanged; with a match it is answered 200 with the row of that id and
\* the body's name and value, that row replaces the old one, and no other
\* row changes.
C5_UpdateStep ==
    \A p \in Procs :
        op[p] = "update" =>
            /\ Executes(p) =>
                /\ pending'[p].hit <=> Id(p) \in Ids(table)
                /\ table' = table
            /\ Commits(p) /\ ~pending[p].hit =>
                /\ resp'[p] = notFound
                /\ table' = table
            /\ Commits(p) /\ pending[p].hit =>
                /\ Id(p) \in Ids(table)
                /\ resp'[p] = Ok(200, ItemOf(Id(p), req[p].body))
                /\ Rows(table') =
                     {r \in Rows(table) : r.id # Id(p)} \cup {ItemOf(Id(p), req[p].body)}
                /\ Len(table') = Len(table)

C5_Update == [][C5_UpdateStep]_vars

\* One PUT was answered 200 with the new name, and a later PUT to the same
\* id, the row deleted meanwhile, was answered 404.
C5_Witness ==
    \E p, q \in Procs :
        /\ Done(p) /\ op[p] = "update" /\ resp[p] = Ok(200, Item(1, NameB, 2))
        /\ Done(q) /\ op[q] = "update" /\ resp[q] = notFound
        /\ Len(table) >= 1

\* ------------------------------------------------------------------- C6

\* C6: the DELETE matches a row exactly when one with the id is stored as
\* it executes; its commit is answered 204 with an empty body either way,
\* removes that row and no other, and changes nothing when there was no
\* such row; and a list that resolves shows exactly the stored ids.
C6_DeleteStep ==
    \A p \in Procs :
        /\ op[p] = "delete" =>
            /\ Executes(p) =>
                /\ pending'[p].hit <=> Id(p) \in Ids(table)
                /\ table' = table
            /\ Commits(p) =>
                /\ resp'[p] = Response(204, "empty", DataNull, "")
                /\ pending[p].hit => Id(p) \notin Ids(table')
                /\ ~pending[p].hit => table' = table
                /\ table' = SelectSeq(table, LAMBDA r : r.id # Id(p) \/ ~pending[p].hit)
        /\ Lists(p) => Ids(resp'[p].data.rows) = Ids(table)

C6_Delete == [][C6_DeleteStep]_vars

\* Item 1 existed and was deleted twice, both times with 204; it is gone
\* and another row is still stored.
C6_Witness ==
    /\ \A p \in Procs : Done(p) /\ op[p] = "delete" /\ Id(p) = 1 /\ resp[p].status = 204
    /\ 1 \in created
    /\ 1 \notin Ids(table)
    /\ Len(table) >= 1

\* ------------------------------------------------------------------- C7

PairOf(body) == <<body.name.s, body.value.n>>

\* Both handlers ended after a PUT to the same id, with different bodies.
TwoPuts(p, q) ==
    /\ p # q
    /\ Done(p) /\ Done(q)
    /\ op[p] = "update" /\ op[q] = "update"
    /\ id[p] = id[q]
    /\ req[p].body # req[q].body

\* C7: after two PUTs to the same id with different bodies, both answered
\* 200, the stored row carries the name and value of one of the two bodies;
\* when the two are the only requests, the row exists and the storage layer
\* did not fail, both are answered 200; and a handler waiting for the row's
\* lock waits for a transaction that can end at once, by its commit or its
\* rollback.
C7_ConcurrentPuts ==
    /\ \A p, q \in Procs :
        TwoPuts(p, q) =>
            /\ resp[p].status = 200 /\ resp[q].status = 200 =>
                /\ Id(p) \in Ids(table)
                /\ <<RowOf(table, Id(p)).name, RowOf(table, Id(p)).value>>
                      \in {PairOf(req[p].body), PairOf(req[q].body)}
            /\ nreq = 2 /\ Id(p) \in created /\ resp[p].status # 500 /\ resp[q].status # 500 =>
                resp[p].status = 200 /\ resp[q].status = 200
    /\ \A p \in Procs :
        pc[p] = "stmt" /\ LockedByOther(p, Id(p)) =>
            \E q \in Procs \ {p} :
                /\ pending[q].hit /\ pending[q].row.id = Id(p)
                /\ ENABLED (Commit(q) \/ Rollback(q))

\* Two PUTs to item 1 that ran at the same time, the only two requests,
\* were both answered 200.
C7_Witness ==
    \E p, q \in Procs :
        /\ TwoPuts(p, q)
        /\ nreq = 2
        /\ overlapped
        /\ resp[p].status = 200 /\ resp[q].status = 200

\* ------------------------------------------------------------------- C8

StrictlyAscending(rows) == \A i \in 1..(Len(rows) - 1) : rows[i].id < rows[i + 1].id

\* C8: a GET that resolves is answered 200 with the stored rows, each once,
\* in strictly ascending id order, and leaves the table as it is.
C8_ListStep ==
    \A p \in Procs :
        Lists(p) =>
            /\ resp'[p].kind = "json" /\ resp'[p].data.kind = "rows"
            /\ StrictlyAscending(resp'[p].data.rows)
            /\ Rows(resp'[p].data.rows) = Rows(table)
            /\ Len(resp'[p].data.rows) = Len(table)
            /\ table' = table

C8_List == [][C8_ListStep]_vars

\* After an update moved item 1 behind item 2 in the heap, a GET listed
\* both rows, item 1 first.
C8_Witness ==
    \E p \in Procs :
        /\ Done(p) /\ op[p] = "list" /\ resp[p].status = 200
        /\ Len(table) = 2 /\ table[1].id > table[2].id
        /\ resp[p].data.rows = <<table[2], table[1]>>
        /\ table[2].name = NameB

\* ------------------------------------------------------------------- C9

\* C9: a POST that commits is answered 201 with a row of the body's name and
\* value whose id no row created before it has or had; the row is stored, no
\* two stored rows share an id, and a stored row leaves the table only by
\* the commit of an update or delete of its id.
C9_CreateStep ==
    /\ \A p \in Procs :
        Commits(p) /\ op[p] = "create" =>
            /\ resp'[p].status = 201 /\ resp'[p].kind = "json" /\ resp'[p].data.kind = "row"
            /\ resp'[p].data.row.name = req[p].body.name.s
            /\ resp'[p].data.row.value = req[p].body.value.n
            /\ resp'[p].data.row.id \notin created
            /\ resp'[p].data.row \in Rows(table')
            /\ Cardinality(Ids(table')) = Len(table')
    /\ \A r \in Rows(table) \ Rows(table') :
        \E q \in Procs : Commits(q) /\ op[q] \in {"update", "delete"} /\ Id(q) = r.id

C9_Create == [][C9_CreateStep]_vars

\* A POST was answered 201 with an id greater than that of a row since
\* deleted, and the row is stored.
C9_Witness ==
    \E p \in Procs :
        /\ Done(p) /\ op[p] = "create" /\ resp[p].status = 201
        /\ resp[p].data.row \in Rows(table)
        /\ \E i \in created : i \notin Ids(table) /\ i < resp[p].data.row.id

\* ------------------------------------------------------------------ C10

\* C10: a transaction whose callback failed is rolled back: the step that
\* answers its request answers 500 and leaves the table as it is, with
\* nothing of the transaction pending; a list shows committed rows only,
\* never the row of a transaction that has not committed; and the step that
\* follows a callback that returned stores the transaction's write.
C10_TransactionStep ==
    \A p \in Procs :
        /\ RollsBack(p) =>
            /\ table' = table
            /\ resp'[p].status = 500
            /\ pending'[p] = NoWrite
        /\ Lists(p) =>
            /\ Rows(resp'[p].data.rows) \subseteq Rows(table)
            /\ \A q \in Procs \ {p} :
                pending[q].kind = "insert" => pending[q].row \notin Rows(resp'[p].data.rows)
        /\ Commits(p) =>
            /\ pending[p].kind = "insert" => pending[p].row \in Rows(table')
            /\ pending[p].kind = "update" /\ pending[p].hit => pending[p].row \in Rows(table')
            /\ pending[p].kind = "delete" /\ pending[p].hit => pending[p].row \notin Rows(table')
            /\ resp'[p].status # 500

C10_Transaction == [][C10_TransactionStep]_vars

\* The only request, a POST, was answered 500 after its INSERT had run: the
\* sequence moved on, and no row was stored.
C10_Witness ==
    \E p \in Procs :
        /\ Done(p) /\ op[p] = "create" /\ resp[p].status = 500
        /\ nreq = 1
        /\ nextId = Len(table) + 2
        /\ InitialTable(table)

\* ------------------------------------------------------------------ C11

\* A value that is neither null nor undefined.
Populated(data) == data.kind \notin {"null", "undefined"}

\* query has returned to handler p.
Returned(p) == result[p] # NoResult

\* C11 as claimed: what query returned has exactly one of data and error
\* populated.
C11_ExactlyOnePopulated ==
    \A p \in Procs :
        Returned(p) =>
            /\ ~result[p].escaped
            /\ Populated(result[p].data) <=> result[p].error.null

\* The operation of handler p rejects and query returns: a rejected SELECT
\* or sql.begin, or the rollback of the transaction.
QueryFails(p) ==
    \/ pc[p] \in {"list", "begin"} /\ pc'[p] = "done" /\ resp'[p].status # 200
    \/ RollsBack(p)

\* C11 amended: query never rejects.  When the operation resolves it returns
\* the operation's result as data with a null error, and that data is
\* undefined for an UPDATE that matched no row and for a DELETE; when the
\* operation rejects it returns null data and an error carrying what was
\* thrown.  data and error are never both populated, and the error is
\* populated exactly when the operation rejected.
C11_QueryStep ==
    \A p \in Procs :
        /\ Commits(p) =>
            /\ result'[p].error.null
            /\ result'[p].data =
                 IF pending[p].kind \in {"insert", "update"} /\ pending[p].hit
                 THEN DataRow(pending[p].row)
                 ELSE DataUndefined
            /\ op[p] = "delete" => ~Populated(result'[p].data)
        /\ Lists(p) =>
            /\ result'[p].error.null
            /\ result'[p].data.kind = "rows"
            /\ Rows(result'[p].data.rows) = Rows(table)
        /\ QueryFails(p) =>
            /\ result'[p].data = DataNull
            /\ ~result'[p].error.null
            /\ result'[p].error.message \in {e.text : e \in Errs}
        /\ RollsBack(p) => result'[p].error.message = err[p].text
        /\ result'[p] # result[p] /\ result'[p] # NoResult =>
            /\ ~result'[p].escaped
            /\ ~(Populated(result'[p].data) /\ ~result'[p].error.null)
            /\ Commits(p) \/ Lists(p) \/ QueryFails(p)

C11_Query == [][C11_QueryStep]_vars

\* A DELETE, or an UPDATE that matched no row, committed: query returned
\* undefined data and a null error, neither of the two populated, and the
\* handler answered 204 or 404.
C11_Witness ==
    /\ Done(1) /\ Returned(1)
    /\ op[1] \in {"delete", "update"}
    /\ result[1].data = DataUndefined
    /\ result[1].error.null
    /\ resp[1].status \in {204, 404}

====
